---- MODULE Spec2Model ----
(***************************************************************************)
(* A model of the AI daily planner: the scheduling agent's                 *)
(* request/response state machine (planner/agent.py), the orchestrator's   *)
(* generate flow (main.py), the plan store (memory/db.py), the markdown    *)
(* export (io_modules/output_writer.py) and the preference value object    *)
(* (planner/preferences.py).                                               *)
(*                                                                         *)
(* Text is a sequence of one-character strings, so that trimming,          *)
(* searching, splitting, parsing and formatting are computed as the code   *)
(* computes them.                                                          *)
(***************************************************************************)
EXTENDS Integers, Sequences, FiniteSets, TLC

VARIABLES
    agent,      \* position inside PlanningAgent.generate_schedule
    caller,     \* who invoked the agent: "none", "direct" or "main"
    args,       \* the arguments of the invocation under way, or None
    request,    \* the inputs of the last chain.run call, or None
    calls,      \* outbound calls to the generation service in this invocation
    response,   \* what chain.run produced for this invocation, or None
    outcome,    \* what generate_schedule returned or raised, or None
    orch,       \* position of main.generate_schedule (the orchestrator)
    plans,      \* rows of the plans table of plans.db
    files,      \* the markdown files under DailyPlans/
    got,        \* the last get_plan call and its result, or None
    lastWrite,  \* history: per calendar date, the last save_plan for it
    prefObj,    \* a PlanningPreferences instance
    prefDict,   \* the dictionary made from it by to_dict, or None
    prefBack,   \* the instance rebuilt from prefDict by from_dict, or None
    prefFile,   \* the JSON document in preferences.json, or None (no file)
    session,    \* the last edit_preferences session, or None
    formatted,  \* the last format_tasks call, its list and its text, or None
    run         \* a run of the program: its environment, arguments and course

vars == <<agent, caller, args, request, calls, response, outcome, orch, plans, files,
          got, lastWrite, prefObj, prefDict, prefBack, prefFile, session,
          formatted, run>>

agentVars == <<agent, caller, args, request, calls, response, outcome>>
prefVars == <<prefObj, prefDict, prefBack>>
fileVars == <<prefFile, session>>
fmtVars == <<formatted>>
otherVars == <<fileVars, fmtVars, run>>

\* Python's None where a record is expected, and where a text or a tuple is
None == [kind |-> "None"]
NoneArg == <<"None">>

(***************************************************************************)
(* Text helpers: Python's str operations on character sequences.           *)
(***************************************************************************)

\* the characters str.strip() removes (the ASCII ones that can occur here)
Whitespace == {" ", "\n", "\t", "\r"}

SetMin(S) == CHOOSE x \in S : \A y \in S : x <= y
SetMax(S) == CHOOSE x \in S : \A y \in S : x >= y

\* str.strip(): drop leading and trailing whitespace
Strip(s) ==
    LET keep == {i \in 1..Len(s) : s[i] \notin Whitespace}
    IN IF keep = {} THEN <<>> ELSE SubSeq(s, SetMin(keep), SetMax(keep))

\* the positions at which m occurs in s
Occurrences(s, m) ==
    {i \in 1..(Len(s) - Len(m) + 1) : SubSeq(s, i, i + Len(m) - 1) = m}

\* `m in s`
Contains(s, m) == Occurrences(s, m) # {}

\* as SplitFirst, but at the last occurrence (rsplit)
SplitLast(s, m) ==
    LET i == SetMax(Occurrences(s, m))
    IN <<SubSeq(s, 1, i - 1), SubSeq(s, i + Len(m), Len(s))>>

\* s.split(m, 1) when m occurs in s: the text before and after the first m
SplitFirst(s, m) ==
    LET i == SetMin(Occurrences(s, m))
    IN <<SubSeq(s, 1, i - 1), SubSeq(s, i + Len(m), Len(s))>>

\* s.split(sep)
RECURSIVE SplitAll(_, _)
SplitAll(s, sep) ==
    IF Contains(s, sep)
    THEN <<SplitFirst(s, sep)[1]>> \o SplitAll(SplitFirst(s, sep)[2], sep)
    ELSE <<s>>

(***************************************************************************)
(* PlanningAgent.generate_schedule                                         *)
(***************************************************************************)

Marker == <<"#","#"," ","S","c","h","e","d","u","l","e"," ",
            "R","a","t","i","o","n","a","l","e">>

NoRationale == <<"N","o"," ","d","e","t","a","i","l","e","d"," ",
                 "r","a","t","i","o","n","a","l","e"," ",
                 "p","r","o","v","i","d","e","d",".">>

MinScheduleLen == 10
MinFallbackLen == 50

Return(schedule, rationale) ==
    [kind |-> "return", schedule |-> schedule, rationale |-> rationale]

Raise(exc, msg) == [kind |-> "raise", exc |-> exc, msg |-> msg]

EmptyInput == Raise("ValueError", "No tasks provided for scheduling")
EmptyResponse ==
    Raise("ValueError", "Received empty or invalid response from the AI model")
ScheduleTooShort == Raise("ValueError", "Generated schedule is too short or invalid")

TextResponse(t) == [kind |-> "text", text |-> t]
NonTextResponse == [kind |-> "nontext"]

\* as EntryGuard, with the check left out
EntryGuardOff(ts) == FALSE

\* `if not tasks` at the entry of generate_schedule
EntryGuard(ts) == ts = <<>>

\* as WholeResponse, accepting a response of exactly the threshold
WholeResponseAtLeast(result) ==
    IF Len(result) >= MinFallbackLen
    THEN Return(result, NoRationale)
    ELSE ScheduleTooShort

\* the branch taken when the marker is not in the trimmed response
WholeResponse(result) ==
    IF Len(result) > MinFallbackLen
    THEN Return(result, NoRationale)
    ELSE ScheduleTooShort

\* as SplitAtMarker, a short schedule part falling through to the fallback
SplitAtMarkerFallThrough(result) ==
    LET parts == SplitFirst(result, Marker)
        schedule == Strip(parts[1])
        rationale == Strip(parts[2])
    IN IF schedule = <<>> \/ Len(schedule) < MinScheduleLen
       THEN WholeResponse(result)
       ELSE Return(schedule, rationale)

\* as SplitAtMarker, without the check of the schedule part's length
SplitAtMarkerUnchecked(result) ==
    LET parts == SplitFirst(result, Marker)
    IN Return(Strip(parts[1]), Strip(parts[2]))

\* the branch taken when the marker is in the trimmed response
SplitAtMarker(result) ==
    LET parts == SplitFirst(result, Marker)
        schedule == Strip(parts[1])
        rationale == Strip(parts[2])
    IN IF schedule = <<>> \/ Len(schedule) < MinScheduleLen
       THEN ScheduleTooShort
       ELSE Return(schedule, rationale)

\* the validation and split of what chain.run returned
ParseResponse(r) ==
    IF r.kind # "text" \/ r.text = <<>>
    THEN EmptyResponse
    ELSE LET result == Strip(r.text)
         IN IF Contains(result, Marker)
            THEN SplitAtMarker(result)
            ELSE WholeResponse(result)

\* `except Exception as e: ... raise`: the error goes to the caller as it is
Reraise(e) == Raise(e.exc, e.msg)

\* as OnFailure, with one more attempt after the first error
OnFailureRetry(e, n) ==
    IF n < 2
    THEN [agent |-> "requesting", calls |-> n + 1, outcome |-> None]
    ELSE [agent |-> "raised", calls |-> n, outcome |-> Reraise(e)]

\* what follows an error of chain.run after n calls: the handler reports and
\* re-raises, the invocation is over and no further call is made
OnFailure(e, n) == [agent |-> "raised", calls |-> n, outcome |-> Reraise(e)]

(***************************************************************************)
(* Dates: datetime.strptime / strftime on character sequences.             *)
(***************************************************************************)

Digits == <<"0","1","2","3","4","5","6","7","8","9">>

IsDigit(c) == \E v \in 1..Len(Digits) : Digits[v] = c

\* the value of a digit character
DigitVal(c) == (CHOOSE v \in 1..Len(Digits) : Digits[v] = c) - 1

DigitChar(n) == Digits[n + 1]

\* the current day (datetime.now(), date.today()): one fixed day per run
Today == [y |-> 2024, m |-> 3, d |-> 5]

IsLeap(y) == (y % 4 = 0 /\ y % 100 # 0) \/ y % 400 = 0

DaysInMonth(y, m) ==
    IF m = 2 THEN (IF IsLeap(y) THEN 29 ELSE 28)
    ELSE IF m \in {4, 6, 9, 11} THEN 30 ELSE 31

NoMatch == [len |-> 0, val |-> 0]

\* the directive %m at position i: 1[0-2] | 0[1-9] | [1-9], to be followed by sep
MonthMatch(s, i, sep) ==
    LET c1 == IF i <= Len(s) THEN s[i] ELSE "?"
        c2 == IF i + 1 <= Len(s) THEN s[i + 1] ELSE "?"
        c3 == IF i + 2 <= Len(s) THEN s[i + 2] ELSE "?"
    IN IF c1 = "1" /\ c2 \in {"0", "1", "2"} /\ c3 = sep
       THEN [len |-> 2, val |-> 10 + DigitVal(c2)]
       ELSE IF c1 = "0" /\ IsDigit(c2) /\ c2 # "0" /\ c3 = sep
       THEN [len |-> 2, val |-> DigitVal(c2)]
       ELSE IF IsDigit(c1) /\ c1 # "0" /\ c2 = sep
       THEN [len |-> 1, val |-> DigitVal(c1)]
       ELSE NoMatch

\* the directive %d at position i, last in the format:
\* 3[01] | [12]\d | 0[1-9] | [1-9] | " "[1-9], the first alternative that matches
DayMatch(s, i) ==
    LET c1 == IF i <= Len(s) THEN s[i] ELSE "?"
        c2 == IF i + 1 <= Len(s) THEN s[i + 1] ELSE "?"
    IN IF c1 = "3" /\ c2 \in {"0", "1"}
       THEN [len |-> 2, val |-> 30 + DigitVal(c2)]
       ELSE IF c1 \in {"1", "2"} /\ IsDigit(c2)
       THEN [len |-> 2, val |-> 10 * DigitVal(c1) + DigitVal(c2)]
       ELSE IF c1 = "0" /\ IsDigit(c2) /\ c2 # "0"
       THEN [len |-> 2, val |-> DigitVal(c2)]
       ELSE IF IsDigit(c1) /\ c1 # "0"
       THEN [len |-> 1, val |-> DigitVal(c1)]
       ELSE IF c1 = " " /\ IsDigit(c2) /\ c2 # "0"
       THEN [len |-> 2, val |-> DigitVal(c2)]
       ELSE NoMatch

ParseError == [ok |-> FALSE]

\* datetime.strptime(s, "%Y<sep>%m<sep>%d"): ParseError stands for ValueError
Strptime(s, sep) ==
    IF ~(Len(s) >= 5 /\ (\A i \in 1..4 : IsDigit(s[i])) /\ s[5] = sep)
    THEN ParseError
    ELSE LET year == 1000 * DigitVal(s[1]) + 100 * DigitVal(s[2])
                     + 10 * DigitVal(s[3]) + DigitVal(s[4])
             mm == MonthMatch(s, 6, sep)
             dd == DayMatch(s, 6 + mm.len + 1)
         IN IF mm.len = 0 \/ dd.len = 0
            THEN ParseError
            ELSE IF 6 + mm.len + dd.len # Len(s)       \* unconverted data remains
            THEN ParseError
            ELSE IF year < 1 \/ dd.val > DaysInMonth(year, mm.val)
            THEN ParseError
            ELSE [ok |-> TRUE, y |-> year, m |-> mm.val, d |-> dd.val]

Pad2(n) == <<DigitChar(n \div 10), DigitChar(n % 10)>>

Pad4(n) == <<DigitChar(n \div 1000), DigitChar((n \div 100) % 10),
             DigitChar((n \div 10) % 10), DigitChar(n % 10)>>

\* strftime("%Y-%m-%d"), also str(date.today()), for years of four digits
Strftime(date) == Pad4(date.y) \o <<"-">> \o Pad2(date.m) \o <<"-">> \o Pad2(date.d)

\* plan_date.split(): the whitespace-separated words, here the first one
\* (<<>> when there is none, where [0] raises IndexError)
FirstWord(s) ==
    LET t == Strip(s)
        ws == {i \in 1..Len(t) : t[i] \in Whitespace}
    IN IF ws = {} THEN t ELSE SubSeq(t, 1, SetMin(ws) - 1)

\* as NormalizeDate, without the attempt at the slashed format
NormalizeDateDashOnly(plan_date) ==
    IF plan_date = NoneArg
    THEN Strftime(Today)
    ELSE LET a == Strptime(plan_date, "-")
             c == IF FirstWord(plan_date) = <<>>
                  THEN ParseError
                  ELSE Strptime(FirstWord(plan_date), "-")
         IN IF a.ok THEN Strftime(a)
            ELSE IF c.ok THEN Strftime(c)
            ELSE Strftime(Today)

\* the date conversion at the head of save_plan and of get_plan
NormalizeDate(plan_date) ==
    IF plan_date = NoneArg
    THEN Strftime(Today)
    ELSE LET a == Strptime(plan_date, "-")
             b == Strptime(plan_date, "/")
             c == IF FirstWord(plan_date) = <<>>
                  THEN ParseError
                  ELSE Strptime(FirstWord(plan_date), "-")
         IN IF a.ok THEN Strftime(a)
            ELSE IF b.ok THEN Strftime(b)
            ELSE IF c.ok THEN Strftime(c)
            ELSE Strftime(Today)

(***************************************************************************)
(* PlanningAgent.format_tasks                                              *)
(***************************************************************************)

LowerLetters == <<"a","b","c","d","e","f","g","h","i","j","k","l","m",
                  "n","o","p","q","r","s","t","u","v","w","x","y","z">>
UpperLetters == <<"A","B","C","D","E","F","G","H","I","J","K","L","M",
                  "N","O","P","Q","R","S","T","U","V","W","X","Y","Z">>

LowerChar(c) ==
    IF \E i \in 1..Len(UpperLetters) : UpperLetters[i] = c
    THEN LowerLetters[CHOOSE i \in 1..Len(UpperLetters) : UpperLetters[i] = c]
    ELSE c

UpperChar(c) ==
    IF \E i \in 1..Len(LowerLetters) : LowerLetters[i] = c
    THEN UpperLetters[CHOOSE i \in 1..Len(LowerLetters) : LowerLetters[i] = c]
    ELSE c

\* as Lower, leaving every letter as it is
LowerKeepsCase(s) == s

\* str.lower()
Lower(s) == [i \in 1..Len(s) |-> LowerChar(s[i])]

\* str.capitalize(): the first character in upper case, the rest in lower case
Capitalize(s) == [i \in 1..Len(s) |-> IF i = 1 THEN UpperChar(s[i]) ELSE LowerChar(s[i])]

\* str(n) of an integer
RECURSIVE IntText(_)
IntText(n) ==
    IF n < 0 THEN <<"-">> \o IntText(0 - n)
    ELSE IF n < 10 THEN <<DigitChar(n)>>
    ELSE IntText(n \div 10) \o <<DigitChar(n % 10)>>

\* sep.join(parts)
RECURSIVE Join(_, _)
Join(parts, sep) ==
    IF parts = <<>> THEN <<>>
    ELSE IF Len(parts) = 1 THEN parts[1]
    ELSE parts[1] \o sep \o Join(Tail(parts), sep)

UnnamedTask == <<"U","n","n","a","m","e","d"," ","t","a","s","k">>
NoTasksProvided == <<"N","o"," ","t","a","s","k","s"," ","p","r","o","v","i","d","e","d",".">>
PriorityLabel == <<"P","r","i","o","r","i","t","y",":"," ">>
DurationLabel == <<"D","u","r","a","t","i","o","n",":"," ">>
DueLabel == <<"D","u","e",":"," ">>
NotesLabel == <<"N","o","t","e","s",":"," ">>
KnownPriorities == {<<"h","i","g","h">>, <<"m","e","d","i","u","m">>, <<"l","o","w">>}

\* a field of a task record that is there and is not empty (`key in task and
\* task[key]`); a duration is [kind |-> "int", val |-> n] or
\* [kind |-> "str", val |-> text], every other field a text
Present(task, key) ==
    /\ key \in DOMAIN task
    /\ IF key = "duration"
       THEN task[key].val # (IF task[key].kind = "int" THEN 0 ELSE <<>>)
       ELSE task[key] # <<>>

\* the line of the i-th task
FormatTask(i, task) ==
    LET head == IntText(i) \o <<".", " ">>
                \o (IF "task" \in DOMAIN task THEN task.task ELSE UnnamedTask)
        priority == IF Present(task, "priority")
                    THEN <<PriorityLabel
                           \o (IF Lower(task.priority) \in KnownPriorities
                               THEN Capitalize(task.priority)
                               ELSE task.priority)>>
                    ELSE <<>>
        duration == IF Present(task, "duration")
                    THEN <<DurationLabel
                           \o (IF task.duration.kind = "int"
                               THEN IntText(task.duration.val) \o <<" ","m","i","n">>
                               ELSE task.duration.val)>>
                    ELSE <<>>
        deadline == IF Present(task, "deadline")
                    THEN <<DueLabel \o task.deadline>>
                    ELSE <<>>
        notes == IF Present(task, "notes")
                 THEN <<NotesLabel \o task.notes>>
                 ELSE <<>>
    IN Join(<<head>> \o priority \o duration \o deadline \o notes,
            <<" ", "|", " ">>)

\* as format_tasks, counting the tasks from 0
format_tasks_from_zero(task_list) ==
    IF task_list = <<>>
    THEN NoTasksProvided
    ELSE Join([i \in 1..Len(task_list) |-> FormatTask(i - 1, task_list[i])], <<"\n">>)

\* format_tasks(task_list)
format_tasks(task_list) ==
    IF task_list = <<>>
    THEN NoTasksProvided
    ELSE Join([i \in 1..Len(task_list) |-> FormatTask(i, task_list[i])], <<"\n">>)

(***************************************************************************)
(* The plan store: memory/db.py                                            *)
(***************************************************************************)

\* a row of the plans table; created_at, which no query of get_plan reads,
\* is left out
Row(date, schedule, reasoning) ==
    [date |-> date, schedule |-> schedule, reasoning |-> reasoning]

\* as InsertOrReplace, keeping the row that is there (INSERT OR IGNORE)
InsertOrIgnore(db, row) ==
    IF \E r \in db : r.date = row.date THEN db ELSE db \cup {row}

\* INSERT OR REPLACE on a table whose primary key is date
InsertOrReplace(db, row) == {r \in db : r.date # row.date} \cup {row}

\* save_plan(schedule, reasoning, plan_date): the table after the call
SavePlan(db, schedule, reasoning, plan_date) ==
    InsertOrReplace(db, Row(NormalizeDate(plan_date), schedule, reasoning))

\* date LIKE '%<date_str>%': date_str holds digits and dashes only, so the
\* pattern has no wildcard of its own and matches the keys that contain it
Like(key, date_str) == Contains(key, date_str)

\* get_plan(date): every result the call can give (fetchone takes any one of
\* the rows a query selects), None when no query selects a row
GetPlan(db, date) ==
    LET date_str == NormalizeDate(date)
        exact == {r \in db : r.date = date_str}
        orig == IF exact = {} /\ date # NoneArg /\ date_str # date
                THEN {r \in db : r.date = date}
                ELSE exact
        like == IF orig = {} THEN {r \in db : Like(r.date, date_str)} ELSE orig
    IN IF like = {} THEN {None} ELSE like

(***************************************************************************)
(* The markdown export: io_modules/output_writer.py                        *)
(***************************************************************************)

\* save_to_markdown(schedule, reasoning, date=date): DailyPlans/<date>.md is
\* written anew; when the write fails (IOError) the files stay as they are
SaveToMarkdown(fs, schedule, reasoning, date, io_ok) ==
    IF io_ok
    THEN {f \in fs : f.name # date}
         \cup {[name |-> date, schedule |-> schedule, reasoning |-> reasoning]}
    ELSE fs

(***************************************************************************)
(* PlanningPreferences: planner/preferences.py                             *)
(***************************************************************************)

\* the dataclass fields in declaration order; an instance is the tuple of
\* its field values in this order (the order __eq__ compares them in)
Fields == <<"workday_start", "workday_end", "max_time_block",
            "break_interval", "deep_work_morning">>

T0900 == <<"0","9",":","0","0">>
T1800 == <<"1","8",":","0","0">>
T0830 == <<"0","8",":","3","0">>

DefaultMaxTimeBlock == 90
DefaultBreakInterval == 15

\* PlanningPreferences(): every field at its default
DefaultPreferences == <<T0900, T1800, DefaultMaxTimeBlock, DefaultBreakInterval, TRUE>>

\* as to_dict, with workday_end read from the wrong field
to_dict_swapped(p) ==
    [workday_start |-> p[1],
     workday_end |-> p[1],
     max_time_block |-> p[3],
     break_interval |-> p[4],
     deep_work_morning |-> p[5]]

\* PlanningPreferences.to_dict
to_dict(p) ==
    [workday_start |-> p[1],
     workday_end |-> p[2],
     max_time_block |-> p[3],
     break_interval |-> p[4],
     deep_work_morning |-> p[5]]

\* PlanningPreferences.from_dict: cls(**data), each field from its keyword,
\* a field without one at its default, an unknown keyword a TypeError;
\* `value` is the instance returned
from_dict(data) ==
    IF \E k \in DOMAIN data : \A i \in 1..Len(Fields) : Fields[i] # k
    THEN Raise("TypeError", "unexpected keyword argument")
    ELSE [kind |-> "return",
          value |-> [i \in 1..Len(Fields) |->
                        IF Fields[i] \in DOMAIN data
                        THEN data[Fields[i]]
                        ELSE DefaultPreferences[i]]]

(***************************************************************************)
(* Inputs                                                                  *)
(***************************************************************************)

\* the most whitespace put before and after a response
MaxPad == 1

\* a text of n characters, words of three letters, no whitespace at its ends
Fill(n) == [i \in 1..n |-> IF i % 4 = 0 /\ i < n THEN " " ELSE "x"]

NL == <<"\n">>
Foo == <<"F","o","o">>
Bar == <<"B","a","r">>
Baz == <<"B","a","z">>
Hi == <<"h","i">>
Ok == <<"o","k">>
\* a rationale whose first word reads as a date
DatedRationale == <<"2","0","2","4","-","0","3","-","0","1"," ",
                    "i","s"," ","b","u","s","y">>
LongRationale == Fill(30)

Pads == {[i \in 1..k |-> "\n"] : k \in 0..MaxPad}

\* schedule parts put before a marker, around the threshold of the split
MarkedBodies ==
    {<<>>, Hi, Foo, Fill(MinScheduleLen - 1), Fill(MinScheduleLen),
     Fill(MinScheduleLen + 1)}

\* what follows the marker; one of them holds the marker a second time
Tails == {<<>>, Bar, LongRationale, DatedRationale, Bar \o NL \o Marker \o NL \o Baz}

\* responses without a marker, around the threshold of the fallback
UnmarkedBodies ==
    {<<>>, Ok, Fill(MinFallbackLen - 1), Fill(MinFallbackLen),
     Fill(MinFallbackLen + 1)}

Cores ==
    {b \o NL \o Marker \o NL \o t : b \in MarkedBodies, t \in Tails}
    \cup UnmarkedBodies

ResponseTexts == {lead \o c \o trail : lead \in Pads, c \in Cores, trail \in Pads}

\* what chain.run can return
Responses == {TextResponse(t) : t \in ResponseTexts} \cup {NonTextResponse}

\* what chain.run can raise: service errors and a transport error
ServiceErrors ==
    {Raise("RateLimitError", "Rate limit reached"),
     Raise("AuthenticationError", "Invalid API key"),
     Raise("APIConnectionError", "Connection error")}

Task1 == [task |-> <<"W","r","i","t","e">>]
Task2 ==
    [task |-> <<"C","a","l","l">>, priority |-> <<"H","i","g","h">>,
     duration |-> [kind |-> "str", val |-> <<"3","0","m","i","n">>],
     deadline |-> <<"1","8",":","0","0">>]

\* task sequences as get_task_input builds them, and the empty one
TaskLists == {<<>>, <<Task1>>, <<Task1, Task2>>}

\* datetime.now().strftime("%A, %B %d, %Y %I:%M %p")
NowText == <<"T","u","e","s","d","a","y",","," ","M","a","r","c","h"," ",
             "0","5",","," ","2","0","2","4"," ",
             "0","9",":","0","0"," ","A","M">>
GivenTime == <<"n","o","o","n">>

(***************************************************************************)
(* The agent and the orchestrator                                          *)
(***************************************************************************)

\* generate_schedule up to the blocking chain.run call
Invoke(ts, current_time, preferences, via) ==
    /\ caller' = via
    /\ args' = [tasks |-> ts, current_time |-> current_time,
                preferences |-> preferences]
    /\ response' = None
    /\ IF EntryGuard(ts)
       THEN /\ agent' = "raised"
            /\ outcome' = EmptyInput
            /\ calls' = 0
            /\ request' = None
       ELSE /\ agent' = "requesting"
            /\ outcome' = None
            /\ calls' = 1
            /\ request' =
                 [tasks |-> format_tasks(ts),
                  current_time |-> IF current_time = NoneArg THEN NowText
                                   ELSE current_time,
                  preferences |-> IF preferences = NoneArg THEN None
                                  ELSE to_dict(preferences)]

\* a caller other than main.generate_schedule invokes the agent
DirectCall ==
    /\ agent = "idle"
    /\ \E ts \in TaskLists, ct \in {NoneArg, GivenTime},
          prefs \in {NoneArg, DefaultPreferences} :
          Invoke(ts, ct, prefs, "direct")
    /\ orch' = "idle"
    /\ UNCHANGED <<plans, files, got, lastWrite, prefVars, otherVars>>

\* main.generate_schedule up to the agent's call: the tasks are read, no
\* tasks ends the flow, otherwise the agent is invoked
OrchStart ==
    /\ agent = "idle"
    /\ \E ts \in TaskLists :
          IF ts = <<>>
          THEN /\ orch' = "no_tasks"
               /\ UNCHANGED agentVars
          ELSE /\ orch' = "running"
               /\ Invoke(ts, NowText, DefaultPreferences, "main")
    /\ UNCHANGED <<plans, files, got, lastWrite, prefVars, otherVars>>

\* chain.run returns r: the response is validated and split
ServiceRespond ==
    /\ agent = "requesting"
    /\ \E r \in Responses :
          LET o == ParseResponse(r)
              res == IF o.kind = "raise" THEN Reraise(o) ELSE o
          IN /\ response' = r
             /\ outcome' = res
             /\ agent' = IF res.kind = "return" THEN "returned" ELSE "raised"
    /\ UNCHANGED <<caller, args, request, calls, orch, plans, files, got,
                   lastWrite, prefVars, otherVars>>

\* chain.run raises e
ServiceFail ==
    /\ agent = "requesting"
    /\ \E e \in ServiceErrors :
          LET then == OnFailure(e, calls)
          IN /\ response' = e
             /\ outcome' = then.outcome
             /\ agent' = then.agent
             /\ calls' = then.calls
    /\ UNCHANGED <<caller, args, request, orch, plans, files, got, lastWrite,
                   prefVars, otherVars>>

\* the direct caller receives the result; the agent keeps nothing of the call
DirectReturn ==
    /\ caller = "direct"
    /\ agent \in {"returned", "raised"}
    /\ agent' = "idle"
    /\ caller' = "none"
    /\ args' = None
    /\ request' = None
    /\ response' = None
    /\ calls' = 0
    /\ UNCHANGED <<outcome, orch, plans, files, got, lastWrite, prefVars, otherVars>>

\* save_plan(today, schedule, rationale) as main.generate_schedule calls it:
\* the three values are handed over by position
OrchSave(db, today, schedule, rationale) == SavePlan(db, today, schedule, rationale)

\* as OrchFinish, with an empty plan saved and exported for today when the
\* agent raised
OrchFinishSavesDefault ==
    /\ caller = "main"
    /\ agent \in {"returned", "raised"}
    /\ \E io_ok \in BOOLEAN :
          LET today == Strftime(Today)
              ok == outcome.kind = "return" /\ outcome.schedule # <<>>
              schedule == IF ok THEN outcome.schedule ELSE <<>>
              rationale == IF ok THEN outcome.rationale ELSE <<>>
          IN /\ plans' = OrchSave(plans, today, schedule, rationale)
             /\ files' = SaveToMarkdown(files, schedule, rationale, today, io_ok)
             /\ orch' = IF ok THEN "saved" ELSE "error"
    /\ agent' = "idle"
    /\ caller' = "none"
    /\ args' = None
    /\ request' = None
    /\ response' = None
    /\ calls' = 0
    /\ UNCHANGED <<outcome, got, lastWrite, prefVars, otherVars>>

\* main.generate_schedule after the agent's call: a schedule is saved and
\* exported, an error is reported
OrchFinish ==
    /\ caller = "main"
    /\ agent \in {"returned", "raised"}
    /\ \E io_ok \in BOOLEAN :
          IF outcome.kind = "return" /\ outcome.schedule # <<>>
          THEN LET today == Strftime(Today)
               IN /\ plans' = OrchSave(plans, today, outcome.schedule,
                                       outcome.rationale)
                  /\ files' = SaveToMarkdown(files, outcome.schedule,
                                             outcome.rationale, today, io_ok)
                  /\ orch' = "saved"
          ELSE /\ orch' = "error"
               /\ UNCHANGED <<plans, files>>
    /\ agent' = "idle"
    /\ caller' = "none"
    /\ args' = None
    /\ request' = None
    /\ response' = None
    /\ calls' = 0
    /\ UNCHANGED <<outcome, got, lastWrite, prefVars, otherVars>>

Init ==
    /\ agent = "idle"
    /\ caller = "none"
    /\ args = None
    /\ request = None
    /\ calls = 0
    /\ response = None
    /\ outcome = None
    /\ orch = "idle"
    /\ plans = {}
    /\ files = {}
    /\ got = None
    /\ lastWrite = None
    /\ prefObj = DefaultPreferences
    /\ prefDict = None
    /\ prefBack = None
    /\ prefFile = None
    /\ session = None
    /\ formatted = None
    /\ run = None

\* the agent under a caller of its own
Next ==
    \/ DirectCall
    \/ ServiceRespond
    \/ ServiceFail
    \/ DirectReturn

Spec == Init /\ [][Next]_vars

\* the orchestrator's generate flow, the agent inside it
NextMain ==
    \/ OrchStart
    \/ ServiceRespond
    \/ ServiceFail
    \/ OrchFinish

SpecMain == Init /\ [][NextMain]_vars

(***************************************************************************)
(* The plan store under direct calls of save_plan and get_plan             *)
(***************************************************************************)

\* the plans saved: a schedule text and its reasoning text
PlanPairs ==
    {<<(<<"p","l","a","n","A">>), (<<"w","h","y","A">>)>>,
     <<(<<"p","l","a","n","B">>), (<<"w","h","y","B">>)>>}

\* the calendar dates plans are saved and asked for
Dates == {[y |-> 2024, m |-> 3, d |-> 1], Today}

\* the ways a calendar date is written
Forms == {"dash", "slash", "unpadded", "dash_time"}

Unpadded(n) == IF n < 10 THEN <<DigitChar(n)>> ELSE Pad2(n)

Written(cal, form) ==
    CASE form = "dash" ->
           Pad4(cal.y) \o <<"-">> \o Pad2(cal.m) \o <<"-">> \o Pad2(cal.d)
      [] form = "slash" ->
           Pad4(cal.y) \o <<"/">> \o Pad2(cal.m) \o <<"/">> \o Pad2(cal.d)
      [] form = "unpadded" ->
           Pad4(cal.y) \o <<"-">> \o Unpadded(cal.m) \o <<"-">> \o Unpadded(cal.d)
      [] form = "dash_time" ->
           Pad4(cal.y) \o <<"-">> \o Pad2(cal.m) \o <<"-">> \o Pad2(cal.d)
           \o <<" ","1","0",":","0","0">>

\* date arguments that are no date: no argument, a word, a year and month,
\* a day that does not exist, a slashed date with a time, the empty text
OtherDates ==
    {NoneArg,
     <<"l","u","n","c","h">>,
     <<"2","0","2","4","-","0","3">>,
     <<"2","0","2","4","-","0","2","-","3","0">>,
     <<"2","0","2","4","/","0","3","/","0","1"," ","1","0",":","0","0">>,
     <<>>}

\* the history of the saves for one calendar date after one more save
Written1(before, schedule, reasoning, form) ==
    [schedule |-> schedule, reasoning |-> reasoning, form |-> form,
     replaced |-> before # None
                  /\ (before.schedule # schedule \/ before.reasoning # reasoning)]

\* save_plan(schedule, reasoning, plan_date) with a date in one of the forms
SavePlanCall ==
    /\ \E pair \in PlanPairs, cal \in Dates, form \in Forms :
          /\ plans' = SavePlan(plans, pair[1], pair[2], Written(cal, form))
          /\ lastWrite' = [lastWrite EXCEPT ![cal] =
                              Written1(lastWrite[cal], pair[1], pair[2], form)]
    /\ got' = None
    /\ UNCHANGED <<agentVars, orch, files, prefVars, otherVars>>

\* save_plan without a date, or with a text that is none: a save for today
SavePlanUndated ==
    /\ \E pair \in PlanPairs, plan_date \in OtherDates :
          /\ plans' = SavePlan(plans, pair[1], pair[2], plan_date)
          /\ lastWrite' = [lastWrite EXCEPT ![Today] =
                              Written1(lastWrite[Today], pair[1], pair[2], "other")]
    /\ got' = None
    /\ UNCHANGED <<agentVars, orch, files, prefVars, otherVars>>

\* get_plan(date) with a date in one of the forms
GetPlanCall ==
    /\ \E cal \in Dates, form \in Forms :
          \E result \in GetPlan(plans, Written(cal, form)) :
             got' = [kind |-> "got", cal |-> cal, form |-> form,
                     date |-> Written(cal, form), result |-> result]
    /\ UNCHANGED <<agentVars, orch, plans, files, lastWrite, prefVars, otherVars>>

\* get_plan without a date, or with a text that is none
GetPlanOther ==
    /\ \E date \in OtherDates :
          \E result \in GetPlan(plans, date) :
             got' = [kind |-> "got", cal |-> None, form |-> "other",
                     date |-> date, result |-> result]
    /\ UNCHANGED <<agentVars, orch, plans, files, lastWrite, prefVars, otherVars>>

\* init_db on an absent plans.db: the table exists and is empty
InitDb ==
    /\ agent = "idle"
    /\ caller = "none"
    /\ args = None
    /\ request = None
    /\ calls = 0
    /\ response = None
    /\ outcome = None
    /\ orch = "idle"
    /\ plans = {}
    /\ files = {}
    /\ got = None
    /\ lastWrite = [cal \in Dates |-> None]
    /\ prefObj = DefaultPreferences
    /\ prefDict = None
    /\ prefBack = None
    /\ prefFile = None
    /\ session = None
    /\ formatted = None
    /\ run = None

NextDb ==
    \/ SavePlanCall
    \/ SavePlanUndated
    \/ GetPlanCall
    \/ GetPlanOther

SpecDb == InitDb /\ [][NextDb]_vars

(***************************************************************************)
(* Preferences through to_dict and from_dict                               *)
(***************************************************************************)

\* the largest of the small minute counts tried beside the defaults
MaxMinutes == 2

Times == {T0900, T1800, T0830}
Minutes == 0..MaxMinutes \cup {DefaultBreakInterval, DefaultMaxTimeBlock}

PrefValues ==
    {<<ws, we, mb, bi, dw>> :
        ws \in Times, we \in Times, mb \in Minutes, bi \in Minutes, dw \in BOOLEAN}

\* PlanningPreferences(...) with any field values
NewPreferences ==
    /\ \E p \in PrefValues : prefObj' = p
    /\ prefDict' = None
    /\ prefBack' = None
    /\ UNCHANGED <<agentVars, orch, plans, files, got, lastWrite, otherVars>>

\* d = p.to_dict()
ToDict ==
    /\ prefDict = None
    /\ prefDict' = to_dict(prefObj)
    /\ UNCHANGED <<agentVars, orch, plans, files, got, lastWrite, prefObj, prefBack,
                   otherVars>>

\* PlanningPreferences.from_dict(d)
FromDict ==
    /\ prefDict # None
    /\ prefBack = None
    /\ prefBack' = from_dict(prefDict)
    /\ UNCHANGED <<agentVars, orch, plans, files, got, lastWrite, prefObj, prefDict,
                   otherVars>>

NextPrefs ==
    \/ NewPreferences
    \/ ToDict
    \/ FromDict

SpecPrefs == Init /\ [][NextPrefs]_vars

(***************************************************************************)
(* preferences.json and load_preferences                                   *)
(***************************************************************************)

\* the type each field is declared with
FieldTypes ==
    [workday_start |-> "str", workday_end |-> "str", max_time_block |-> "int",
     break_interval |-> "int", deep_work_morning |-> "bool"]

FieldSet == {Fields[i] : i \in 1..Len(Fields)}

\* a JSON value, kept with the Python type json.load gives it
Json(type, val) == [type |-> type, val |-> val]

\* preferences.json holding the JSON object doc, and holding no JSON at all
JsonFile(doc) == [kind |-> "json", doc |-> doc]
CorruptFile == [kind |-> "corrupt"]

\* json.load(f): the dictionary of the Python values of a JSON object
JsonLoad(doc) == [k \in DOMAIN doc |-> doc[k].val]

\* load_preferences: what from_dict was given and gave (None when it was
\* not reached), and the instance load_preferences returns: the defaults
\* when there is no file and when reading it raised
LoadPreferencesResult(file) ==
    IF file = None \/ file.kind = "corrupt"
    THEN [data |-> None, built |-> None, prefs |-> DefaultPreferences]
    ELSE LET data == JsonLoad(file.doc)
             built == from_dict(data)
         IN [data |-> data, built |-> built,
             prefs |-> IF built.kind = "return" THEN built.value
                       ELSE DefaultPreferences]

\* values of the declared type, and of another type, for each field
RightValue ==
    [workday_start |-> Json("str", T0830), workday_end |-> Json("str", T1800),
     max_time_block |-> Json("int", 45), break_interval |-> Json("int", 0),
     deep_work_morning |-> Json("bool", FALSE)]
WrongValue ==
    [workday_start |-> Json("int", 9), workday_end |-> Json("bool", TRUE),
     max_time_block |-> Json("str", <<"n","i","n","e","t","y">>),
     break_interval |-> Json("str", <<"1","5">>),
     deep_work_morning |-> Json("str", <<"y","e","s">>)]

\* how a document treats a field
Treatments == {"right", "wrong", "missing"}

\* the JSON object that treats each field as told, with or without a key
\* that is no field
Document(treat, extra) ==
    [k \in {f \in FieldSet : treat[f] # "missing"}
           \cup (IF extra THEN {"theme"} ELSE {}) |->
        IF k = "theme" THEN Json("str", <<"d","a","r","k">>)
        ELSE IF treat[k] = "right" THEN RightValue[k]
        ELSE WrongValue[k]]

\* preferences.json as a run finds it: written by hand or by another program
FileFound ==
    /\ \/ \E treat \in [FieldSet -> Treatments], extra \in BOOLEAN :
             prefFile' = JsonFile(Document(treat, extra))
       \/ prefFile' = CorruptFile
       \/ prefFile' = None
    /\ prefDict' = None
    /\ prefBack' = None
    /\ prefObj' = DefaultPreferences
    /\ UNCHANGED <<agentVars, orch, plans, files, got, lastWrite, session,
                   fmtVars, run>>

\* prefs = load_preferences()
LoadPreferences ==
    /\ prefBack = None
    /\ LET r == LoadPreferencesResult(prefFile)
       IN /\ prefDict' = r.data
          /\ prefBack' = IF r.built = None THEN [kind |-> "skipped"] ELSE r.built
          /\ prefObj' = r.prefs
    /\ UNCHANGED <<agentVars, orch, plans, files, got, lastWrite, fileVars,
                   fmtVars, run>>

NextLoad ==
    \/ FileFound
    \/ LoadPreferences

SpecLoad == Init /\ [][NextLoad]_vars

(***************************************************************************)
(* format_tasks under direct calls                                         *)
(***************************************************************************)

\* the longest list of several tasks
MaxTasks == 2

\* a key of a task record: not there, or there with a value
NoField == [has |-> FALSE]
Field(v) == [has |-> TRUE, val |-> v]

TaskNames ==
    {NoField, Field(<<>>), Field(<<"W","r","i","t","e">>),
     Field(<<"C","a","l","l">>)}
Priorities ==
    {NoField, Field(<<>>),
     Field(<<"H","I","G","H">>), Field(<<"h","i","g","h">>),
     Field(<<"h","I","g","H">>), Field(<<"M","e","d","i","u","m">>),
     Field(<<"L","O","W">>), Field(<<"u","r","g","e","n","t">>),
     Field(<<"H","i","g","h","e","s","t">>), Field(<<"l","o">>)}
Durations ==
    {NoField, Field([kind |-> "str", val |-> <<"3","0","m","i","n">>]),
     Field([kind |-> "int", val |-> 45]), Field([kind |-> "int", val |-> 0])}
Deadlines == {NoField, Field(<<"1","8",":","0","0">>)}
Notes == {NoField, Field(<<"a","s","a","p">>)}

\* the task record with the keys that are there
MakeTask(name, priority, duration, deadline, notes) ==
    LET given == [task |-> name, priority |-> priority, duration |-> duration,
                  deadline |-> deadline, notes |-> notes]
    IN [k \in {key \in DOMAIN given : given[key].has} |-> given[k].val]

\* every record of one task
AnyTasks ==
    {MakeTask(n, p, du, dl, no) :
        n \in TaskNames, p \in Priorities, du \in Durations, dl \in Deadlines,
        no \in Notes}

\* the tasks the longer lists are made of
SeveralTasks ==
    {Task1, Task2,
     MakeTask(NoField, Field(<<"L","O","W">>), NoField, NoField,
              Field(<<"a","s","a","p">>)),
     MakeTask(Field(<<"R","u","n">>), Field(<<"u","r","g","e","n","t">>),
              Field([kind |-> "int", val |-> 45]), Field(<<"1","8",":","0","0">>),
              Field(<<"a","s","a","p">>))}

\* the lists handed to format_tasks
FormatInputs ==
    {<<>>} \cup {<<t>> : t \in AnyTasks}
    \cup UNION {[1..n -> SeveralTasks] : n \in 2..MaxTasks}

\* text = PlanningAgent.format_tasks(task_list)
FormatTasksCall ==
    /\ formatted = None
    /\ \E ts \in FormatInputs :
          formatted' = [kind |-> "formatted", task_list |-> ts,
                        text |-> format_tasks(ts)]
    /\ UNCHANGED <<agentVars, orch, plans, files, got, lastWrite, prefVars,
                   fileVars, run>>

\* the caller drops the text
FormatTasksForget ==
    /\ formatted # None
    /\ formatted' = None
    /\ UNCHANGED <<agentVars, orch, plans, files, got, lastWrite, prefVars,
                   fileVars, run>>

NextFormat ==
    \/ FormatTasksCall
    \/ FormatTasksForget

SpecFormat == Init /\ [][NextFormat]_vars

(***************************************************************************)
(* One run of the program: `python main.py [options]`                      *)
(***************************************************************************)

MissingKeyMessage ==
    <<"O","P","E","N","A","I","_","A","P","I","_","K","E","Y"," ",
      "n","o","t"," ","f","o","u","n","d"," ","i","n"," ",
      "e","n","v","i","r","o","n","m","e","n","t"," ",
      "v","a","r","i","a","b","l","e","s">>

KeyName == <<"O","P","E","N","A","I","_","A","P","I","_","K","E","Y">>

\* what main prints for a ValueError that names the key
KeyNotFoundNotice ==
    <<"O","p","e","n","A","I"," ","A","P","I"," ","k","e","y"," ",
      "n","o","t"," ","f","o","u","n","d">>

\* load_dotenv(env_path) and os.getenv: a variable of the environment stands,
\* set to anything; the .env file supplies the variables that are not set
Getenv(environ, dotenv) == IF environ # NoneArg THEN environ ELSE dotenv

\* the body of class Config, run when config.config is imported
ConfigClassBody(environ, dotenv) ==
    LET OPENAI_API_KEY == Getenv(environ, dotenv)
    IN IF OPENAI_API_KEY = NoneArg \/ OPENAI_API_KEY = <<>>
       THEN Raise("ValueError", MissingKeyMessage)
       ELSE [kind |-> "class", OPENAI_API_KEY |-> OPENAI_API_KEY]

\* PlanningAgent(): the agent holds Config and a ChatOpenAI client made with
\* Config.OPENAI_API_KEY; the client's constructor refuses a key that is not
\* there with a ValueError that names the variable
NewAgent(config) ==
    IF config.OPENAI_API_KEY = NoneArg \/ config.OPENAI_API_KEY = <<>>
    THEN Raise("ValueError", KeyName)
    ELSE [kind |-> "agent", openai_api_key |-> config.OPENAI_API_KEY]

\* main: the function the parsed options lead to
Dispatch(argv) ==
    IF argv.prefs THEN "edit_preferences"
    ELSE IF argv.view THEN "view_plan"
    ELSE IF argv.date # NoneArg /\ argv.date # <<>> THEN "view_plan_date"
    ELSE IF argv.recent # None THEN "view_recent_plans"
    ELSE "generate_schedule"

\* the values OPENAI_API_KEY has in the environment and in .env: not set,
\* set to the empty text, set to a key
KeyValues == {NoneArg, <<>>, <<"s","k","-","1">>}

\* the options of a run as parse_arguments gives them (--tasks, which main
\* never reads, left out)
Options ==
    [prefs : BOOLEAN, view : BOOLEAN,
     date : {NoneArg, <<>>, <<"2","0","2","4","-","0","3","-","0","1">>},
     recent : {None, [kind |-> "int", val |-> 3], [kind |-> "int", val |-> 0]}]

\* the interpreter is started on main.py
Launch ==
    /\ run = None
    /\ \E environ \in KeyValues, dotenv \in KeyValues, argv \in Options :
          run' = [kind |-> "run", environ |-> environ, dotenv |-> dotenv,
                  argv |-> argv, at |-> "imports", config |-> None,
                  entered |-> "none", notice |-> NoneArg, exit |-> "none"]
    /\ UNCHANGED <<agentVars, orch, plans, files, got, lastWrite, prefVars,
                   fileVars, fmtVars>>

\* the imports at the top of main.py: config.config is executed, and an
\* exception of it, raised outside every try, ends the run with a traceback
ImportModules ==
    /\ run # None
    /\ run.at = "imports"
    /\ LET c == ConfigClassBody(run.environ, run.dotenv)
       IN run' = IF c.kind = "raise"
                 THEN [run EXCEPT !.at = "ended", !.exit = "uncaught",
                                  !.config = c]
                 ELSE [run EXCEPT !.at = "main", !.config = c]
    /\ UNCHANGED <<agentVars, orch, plans, files, got, lastWrite, prefVars,
                   fileVars, fmtVars>>

\* main(): the environment is set up, the options are parsed and the run
\* goes on in the function they name; for the default one the agent is
\* built first, and a ValueError of that which names the key is answered
\* with the notice
Main ==
    /\ run # None
    /\ run.at = "main"
    /\ LET to == Dispatch(run.argv)
           built == NewAgent(run.config)
       IN run' = IF to = "generate_schedule" /\ built.kind = "raise"
                 THEN [run EXCEPT !.at = "ended", !.exit = "normal",
                                  !.notice = IF Contains(built.msg, KeyName)
                                             THEN KeyNotFoundNotice
                                             ELSE built.msg]
                 ELSE [run EXCEPT !.at = "ended", !.exit = "normal",
                                  !.entered = to]
    /\ UNCHANGED <<agentVars, orch, plans, files, got, lastWrite, prefVars,
                   fileVars, fmtVars>>

\* the process is gone
Exit ==
    /\ run # None
    /\ run.at = "ended"
    /\ run' = None
    /\ UNCHANGED <<agentVars, orch, plans, files, got, lastWrite, prefVars,
                   fileVars, fmtVars>>

NextRun ==
    \/ Launch
    \/ ImportModules
    \/ Main
    \/ Exit

SpecRun == Init /\ [][NextRun]_vars

(***************************************************************************)
(* edit_preferences: main.py, with load_preferences and save_preferences   *)
(***************************************************************************)

\* str.isdigit() (on the ASCII characters that occur here)
IsDigitText(s) == s # <<>> /\ \A i \in 1..Len(s) : IsDigit(s[i])

\* int(s) of a text of digits
RECURSIVE IntOf(_)
IntOf(s) ==
    IF s = <<>> THEN 0
    ELSE 10 * IntOf(SubSeq(s, 1, Len(s) - 1)) + DigitVal(s[Len(s)])

\* json.dump(prefs.to_dict()): each value written in the JSON form of its
\* Python type, which in these sessions is the type of its field (a default,
\* a text cut from the input, an int(), a comparison)
JsonDump(d) == [k \in DOMAIN d |-> Json(FieldTypes[k], d[k])]

\* save_preferences(prefs): the file after the call; a failure to open it
\* is reported and leaves it as it was
SavePreferences(file, prefs, io_ok) ==
    IF io_ok THEN JsonFile(JsonDump(to_dict(prefs))) ELSE file

\* the workday question: the answer is taken when it has a dash, and must
\* then split into a start and an end
AskWorkday(prefs, answer) ==
    LET new_workday == Strip(answer)
    IN IF new_workday # <<>> /\ Contains(new_workday, <<"-">>)
       THEN LET parts == SplitAll(new_workday, <<"-">>)
            IN IF Len(parts) = 2
               THEN [kind |-> "ok",
                     prefs |-> [prefs EXCEPT ![1] = Strip(parts[1]),
                                             ![2] = Strip(parts[2])]]
               ELSE Raise("ValueError", "too many values to unpack")
       ELSE [kind |-> "ok", prefs |-> prefs]

\* a minutes question for field i: the answer is taken when str.isdigit
AskMinutes(prefs, i, answer) ==
    LET new == Strip(answer)
    IN IF IsDigitText(new) THEN [prefs EXCEPT ![i] = IntOf(new)] ELSE prefs

\* the deep work question: y and n in either case are taken
AskDeepWork(prefs, answer) ==
    LET deep_work == Lower(Strip(answer))
    IN IF deep_work \in {<<"y">>, <<"n">>}
       THEN [prefs EXCEPT ![5] = (deep_work = <<"y">>)]
       ELSE prefs

\* edit_preferences with the four answers: how it ended, the preferences it
\* loaded and those it held at the end, and the file after it
EditPreferencesResult(file, answers, io_ok) ==
    LET loaded == LoadPreferencesResult(file).prefs
        workday == AskWorkday(loaded, answers.workday)
    IN IF workday.kind = "raise"
       THEN [loaded |-> loaded, ended |-> "raised", prefs |-> loaded,
             file |-> file]
       ELSE LET prefs == AskDeepWork(
                            AskMinutes(AskMinutes(workday.prefs, 3, answers.max_block),
                                       4, answers.break),
                            answers.deep_work)
            IN [loaded |-> loaded, ended |-> "returned", prefs |-> prefs,
                file |-> SavePreferences(file, prefs, io_ok)]

\* what the user can type at the questions
WorkdayAnswers ==
    {<<>>, <<"0","8",":","3","0">>,
     <<"0","8",":","3","0"," ","-"," ","1","8",":","0","0">>,
     <<"8","-","1","2","-","1","8">>}
MinuteAnswers ==
    {<<>>, <<"x">>, <<"-","5">>} \cup {IntText(n) : n \in 0..MaxMinutes}
DeepWorkAnswers == {<<>>, <<"N">>, <<"y">>, <<"o","k">>}

Answers ==
    [workday : WorkdayAnswers, max_block : MinuteAnswers, break : MinuteAnswers,
     deep_work : DeepWorkAnswers]

\* python main.py --prefs: one session of edit_preferences
EditPreferences ==
    /\ session = None
    /\ \E answers \in Answers, io_ok \in BOOLEAN :
          LET r == EditPreferencesResult(prefFile, answers, io_ok)
          IN /\ session' = [kind |-> "session", answers |-> answers,
                             io_ok |-> io_ok, loaded |-> r.loaded,
                             ended |-> r.ended, prefs |-> r.prefs]
             /\ prefFile' = r.file
    /\ UNCHANGED <<agentVars, orch, plans, files, got, lastWrite, prefVars,
                   fmtVars, run>>

\* the session is over
SessionOver ==
    /\ session # None
    /\ session' = None
    /\ UNCHANGED <<agentVars, orch, plans, files, got, lastWrite, prefVars,
                   prefFile, fmtVars, run>>

NextEdit ==
    \/ EditPreferences
    \/ SessionOver

SpecEdit == Init /\ [][NextEdit]_vars

(***************************************************************************)
(* Properties of the agent (C1-C6), stated on the raw response and on      *)
(* what the invocation gave back.                                          *)
(***************************************************************************)

\* the invocation has ended: generate_schedule returned or raised
Ended == agent \in {"returned", "raised"}

\* chain.run gave a text
HasText == response.kind = "text"

\* the marker stands at position i of t
MarkerAt(t, i) ==
    /\ i + Len(Marker) - 1 <= Len(t)
    /\ \A j \in 1..Len(Marker) : t[i + j - 1] = Marker[j]

HasMarker(t) == \E i \in 1..Len(t) : MarkerAt(t, i)

FirstMarker(t) ==
    CHOOSE i \in 1..Len(t) : MarkerAt(t, i) /\ \A j \in 1..(i - 1) : ~MarkerAt(t, j)

\* the trimmed text before, and after, the first marker of t
PartBefore(t) == Strip(SubSeq(t, 1, FirstMarker(t) - 1))
PartAfter(t) == Strip(SubSeq(t, FirstMarker(t) + Len(Marker), Len(t)))

\* C1: an invocation with an empty task sequence fails with the empty-input
\* error and issues no request (the number of outbound calls stays 0),
\* whatever current_time and preferences are.
C1_EmptyTaskGuard ==
    (agent # "idle" /\ args.tasks = <<>>)
        => /\ agent = "raised"
           /\ outcome = EmptyInput
           /\ calls = 0
           /\ request = None

\* C1 witness: an invocation with no tasks, a given time and preferences
\* has been refused.
C1_Witness ==
    /\ agent = "raised"
    /\ args.tasks = <<>>
    /\ args.current_time = GivenTime
    /\ args.preferences = DefaultPreferences
    /\ outcome = EmptyInput

\* C2: for a non-empty text response that holds the marker and whose trimmed
\* text before the first marker has at least 10 characters, the schedule is
\* the trimmed text before the first marker and the rationale the trimmed
\* text after it, later markers staying inside the rationale.
C2_SplitAtFirstMarker ==
    (Ended /\ HasText /\ response.text # <<>> /\ HasMarker(response.text)
           /\ Len(PartBefore(response.text)) >= 10)
        => /\ agent = "returned"
           /\ outcome = Return(PartBefore(response.text), PartAfter(response.text))

\* C2 witness: a padded response with two markers was split at the first,
\* the second one left inside the rationale.
C2_Witness ==
    /\ Ended
    /\ HasText
    /\ HasMarker(response.text)
    /\ response.text[1] \in Whitespace
    /\ outcome.kind = "return"
    /\ Len(outcome.schedule) >= 10
    /\ HasMarker(outcome.rationale)

\* C3 as stated: for a non-empty text response without the marker, a trimmed
\* length of at least 50 (exactly 50 included) gives the whole trimmed
\* response as schedule with the fallback rationale, a shorter one fails
\* with the schedule-too-short error.
C3_Original ==
    (Ended /\ HasText /\ response.text # <<>> /\ ~HasMarker(response.text))
        => IF Len(Strip(response.text)) >= 50
           THEN outcome = Return(Strip(response.text), NoRationale)
           ELSE outcome = ScheduleTooShort

\* C3 as amended: for a text response without the marker, a trimmed length
\* above 50 (at least 51) gives the whole trimmed response as schedule with
\* the fallback rationale; a non-empty response of trimmed length 50 or less
\* fails with the schedule-too-short error, an empty one with the
\* empty-response error.
C3_FallbackAbove50 ==
    (Ended /\ HasText /\ ~HasMarker(response.text))
        => IF response.text = <<>>
           THEN outcome = EmptyResponse
           ELSE IF Len(Strip(response.text)) > 50
           THEN outcome = Return(Strip(response.text), NoRationale)
           ELSE outcome = ScheduleTooShort

\* C3 witness: a response without marker of trimmed length exactly 50 was
\* rejected as too short.
C3_Witness ==
    /\ Ended
    /\ HasText
    /\ ~HasMarker(response.text)
    /\ Len(Strip(response.text)) = 50
    /\ outcome = ScheduleTooShort

\* C4: a response that holds the marker and whose trimmed part before the
\* first marker is shorter than 10 characters fails with the
\* schedule-too-short error, whatever the rationale part and the total
\* length are.
C4_MarkerButShort ==
    (Ended /\ HasText /\ HasMarker(response.text)
           /\ Len(PartBefore(response.text)) < 10)
        => /\ agent = "raised"
           /\ outcome = ScheduleTooShort

\* C4 witness: a response of more than 50 characters with a 9-character
\* schedule part and a long rationale was rejected.
C4_Witness ==
    /\ Ended
    /\ HasText
    /\ HasMarker(response.text)
    /\ Len(PartBefore(response.text)) = 9
    /\ Len(PartAfter(response.text)) >= 30
    /\ Len(Strip(response.text)) > 50
    /\ outcome = ScheduleTooShort

FooBar == Foo \o NL \o Marker \o NL \o Bar
TenBar == Fill(10) \o NL \o Marker \o NL \o Bar

\* C5 as stated: the response Foo, newline, marker, newline, Bar gives
\* schedule Foo and rationale Bar.
C5_Original ==
    (Ended /\ HasText /\ response.text = FooBar) => outcome = Return(Foo, Bar)

\* C5 as amended: the response Foo, newline, marker, newline, Bar fails with
\* the schedule-too-short error, Foo having 3 characters; with a schedule
\* part of 10 characters in the place of Foo the result is that schedule
\* part and the rationale Bar.
C5_SplitNeedsTenCharacters ==
    /\ (Ended /\ HasText /\ response.text = FooBar) => outcome = ScheduleTooShort
    /\ (Ended /\ HasText /\ response.text = TenBar) => outcome = Return(Fill(10), Bar)

\* C5 witness: the response Foo, newline, marker, newline, Bar was rejected.
C5_Witness ==
    /\ Ended
    /\ HasText
    /\ response.text = FooBar
    /\ agent = "raised"

\* C6: an invocation with tasks sends exactly one request; when the request
\* fails the invocation ends failed with that same error, no second request
\* is issued and no schedule is returned.
C6_SingleRequestNoRetry ==
    /\ calls <= 1
    /\ (agent # "idle" /\ args.tasks # <<>>) => (calls = 1 /\ request # None)
    /\ (agent # "idle" /\ response.kind = "raise")
           => /\ agent = "raised"
              /\ outcome.kind = "raise"
              /\ outcome.exc = response.exc
              /\ outcome.msg = response.msg

\* C6 witness: the one request failed with a rate-limit error and the
\* invocation ended with it.
C6_Witness ==
    /\ agent = "raised"
    /\ calls = 1
    /\ response.kind = "raise"
    /\ response.exc = "RateLimitError"
    /\ outcome = response

(***************************************************************************)
(* Properties of the orchestrator's save and of the plan store (C7-C9)     *)
(***************************************************************************)

\* C7: after the generate flow completed a successful generation returning
\* (schedule, rationale), the store holds under today's date a record whose
\* schedule is that schedule and whose reasoning is that rationale, so that
\* get_plan(today) returns exactly that pair.
C7_SavedPlanIsReturnedPair ==
    orch = "saved"
        => GetPlan(plans, Strftime(Today))
             = {Row(Strftime(Today), outcome.schedule, outcome.rationale)}

\* C8: a plan saved under a date written YYYY-MM-DD is returned by a later
\* get_plan for the same calendar date written YYYY/MM/DD or YYYY-MM-DD,
\* with the same schedule and reasoning, when no other save for that date
\* came in between.
C8_LookupInBothForms ==
    (/\ got.kind = "got"
     /\ got.form \in {"dash", "slash"}
     /\ lastWrite[got.cal] # None
     /\ lastWrite[got.cal].form = "dash")
        => got.result = Row(Written(got.cal, "dash"),
                            lastWrite[got.cal].schedule,
                            lastWrite[got.cal].reasoning)

\* C8 witness: a plan saved under a dashed date other than today was asked
\* for with the slashed date and came back.
C8_Witness ==
    /\ got.kind = "got"
    /\ got.form = "slash"
    /\ got.cal # Today
    /\ lastWrite[got.cal] # None
    /\ lastWrite[got.cal].form = "dash"
    /\ got.result # None
    /\ got.result.schedule = lastWrite[got.cal].schedule
    /\ got.result.reasoning = lastWrite[got.cal].reasoning

\* C9: after any sequence of saves the store holds at most one record per
\* normalized date key, every key is a YYYY-MM-DD date, and the record of a
\* date is the one of the most recent save for it, in whichever form that
\* save wrote the date; a date never saved has no record.
C9_OneRecordPerDateLatestWins ==
    /\ \A r1 \in plans, r2 \in plans : r1.date = r2.date => r1 = r2
    /\ \A r \in plans : \E cal \in Dates : r.date = Written(cal, "dash")
    /\ \A cal \in Dates :
          IF lastWrite[cal] = None
          THEN \A r \in plans : r.date # Written(cal, "dash")
          ELSE Row(Written(cal, "dash"), lastWrite[cal].schedule,
                   lastWrite[cal].reasoning) \in plans

\* C9 witness: a save with a slashed date replaced a different record of the
\* same date, with the other date's record in the store beside it.
C9_Witness ==
    /\ \A cal \in Dates : lastWrite[cal] # None
    /\ \E cal \in Dates :
          /\ lastWrite[cal].form = "slash"
          /\ lastWrite[cal].replaced
    /\ Cardinality(plans) = Cardinality(Dates)

(***************************************************************************)
(* Properties of the preferences (C10)                                     *)
(***************************************************************************)

\* C10: for every PlanningPreferences value p, from_dict(p.to_dict()) is
\* equal to p.
C10_RoundTrip ==
    prefBack # None => (prefBack.kind = "return" /\ prefBack.value = prefObj)

\* C10 witness: a value that differs from the defaults in every field went
\* through to_dict and from_dict.
C10_Witness ==
    /\ prefDict # None
    /\ prefBack # None
    /\ prefBack.kind = "return"
    /\ \A i \in 1..Len(Fields) : prefObj[i] # DefaultPreferences[i]
    /\ prefObj[1] # prefObj[2]

(***************************************************************************)
(* Properties of loading preferences (C11).                                *)
(***************************************************************************)

\* a key of to_dict is not in the document
LacksKey(doc) == \E f \in FieldSet : f \notin DOMAIN doc

\* a field's value in the document is not of the field's type
WrongType(doc) == \E f \in FieldSet \cap DOMAIN doc : doc[f].type # FieldTypes[f]

\* from_dict was called on the dictionary of preferences.json
Loaded == prefFile # None /\ prefFile.kind = "json" /\ prefBack # None

\* C11: from_dict fails whenever its dictionary lacks one of the five keys of
\* to_dict or holds a value of another type than the field's; it never
\* returns an instance built from such a dictionary.
C11_MalformedRejected ==
    (Loaded /\ (LacksKey(prefFile.doc) \/ WrongType(prefFile.doc)))
        => prefBack.kind = "raise"

(***************************************************************************)
(* Properties of format_tasks (C12-C14), stated on the text returned:      *)
(* its lines, and the parts of a line between the separators.              *)
(***************************************************************************)

EntriesOf(text) == SplitAll(text, <<"\n">>)
PartsOf(entry) == SplitAll(entry, <<" ", "|", " ">>)
StartsWith(s, p) == Len(s) >= Len(p) /\ SubSeq(s, 1, Len(p)) = p

\* format_tasks was called on a list of tasks and gave one entry per task
FormattedList ==
    /\ formatted # None
    /\ formatted.task_list # <<>>
    /\ Len(EntriesOf(formatted.text)) = Len(formatted.task_list)

\* s is the lower-case word w with any of its letters in upper case
CaseVariant(s, w) ==
    /\ Len(s) = Len(w)
    /\ \A i \in 1..Len(w) : s[i] = w[i] \/ s[i] = UpperChar(w[i])

\* what the claim has a text priority rendered as
RenderedPriority(priority) ==
    IF CaseVariant(priority, <<"h","i","g","h">>) THEN <<"H","i","g","h">>
    ELSE IF CaseVariant(priority, <<"m","e","d","i","u","m">>)
         THEN <<"M","e","d","i","u","m">>
    ELSE IF CaseVariant(priority, <<"l","o","w">>) THEN <<"L","o","w">>
    ELSE priority

\* C12: every task with a non-empty text priority has its entry, and the
\* entry holds `Priority: High`, `Priority: Medium` or `Priority: Low` when
\* the priority is a case variant of high, medium or low, and `Priority: `
\* with the priority as given otherwise.
C12_PriorityRendering ==
    (formatted # None /\ formatted.task_list # <<>>) =>
        /\ FormattedList
        /\ \A i \in 1..Len(formatted.task_list) :
              LET task == formatted.task_list[i]
                  parts == PartsOf(EntriesOf(formatted.text)[i])
              IN ("priority" \in DOMAIN task /\ task.priority # <<>>) =>
                    \E j \in 2..Len(parts) :
                       parts[j] = PriorityLabel \o RenderedPriority(task.priority)

\* C12 witness: a task whose priority is high in mixed case was formatted
\* and its entry reads `Priority: High`.
C12_Witness ==
    /\ FormattedList
    /\ Len(formatted.task_list) = 1
    /\ "priority" \in DOMAIN formatted.task_list[1]
    /\ formatted.task_list[1].priority = <<"h","I","g","H">>
    /\ Contains(formatted.text, PriorityLabel \o <<"H","i","g","h">>)

\* the optional fields in the order of the claim
OptionalFields ==
    <<[key |-> "priority", label |-> PriorityLabel],
      [key |-> "duration", label |-> DurationLabel],
      [key |-> "deadline", label |-> DueLabel],
      [key |-> "notes", label |-> NotesLabel]>>

\* the fields of a task that are there with a value that is not empty
PresentFields(task) == SelectSeq(OptionalFields, LAMBDA f : Present(task, f.key))

\* C13: the text is the sentinel `No tasks provided.` exactly when the list
\* is empty; for n tasks it has n entries in the order of the list, the i-th
\* beginning with i, a dot, a blank and the description of the i-th task,
\* followed by the optional fields that are there (with a value that is not
\* empty), in the order priority, duration, deadline, notes.
C13_EntriesInOrder ==
    formatted # None =>
        /\ (formatted.text = NoTasksProvided) <=> (formatted.task_list = <<>>)
        /\ formatted.task_list # <<>> =>
              /\ FormattedList
              /\ \A i \in 1..Len(formatted.task_list) :
                    LET task == formatted.task_list[i]
                        parts == PartsOf(EntriesOf(formatted.text)[i])
                        fields == PresentFields(task)
                    IN /\ parts[1] = IntText(i) \o <<".", " ">>
                                     \o (IF "task" \in DOMAIN task THEN task.task
                                         ELSE UnnamedTask)
                       /\ Len(parts) = 1 + Len(fields)
                       /\ \A j \in 1..Len(fields) :
                             StartsWith(parts[j + 1], fields[j].label)

\* C13 witness: a list of two tasks, the second with all four optional
\* fields, was formatted.
C13_Witness ==
    /\ FormattedList
    /\ Len(formatted.task_list) = 2
    /\ Len(PresentFields(formatted.task_list[2])) = 4
    /\ Len(PartsOf(EntriesOf(formatted.text)[2])) = 5

\* C14: the description after the index of every entry is not empty, also
\* for a task without the task key and for a task whose task key is empty.
C14_DescriptionNeverEmpty ==
    FormattedList =>
        \A i \in 1..Len(formatted.task_list) :
           Len(PartsOf(EntriesOf(formatted.text)[i])[1]) > Len(IntText(i)) + 2

(***************************************************************************)
(* Properties of a run without the API key (C15).                          *)
(***************************************************************************)

\* the run has ended and OPENAI_API_KEY was in neither the environment nor
\* the .env file
EndedWithoutKey ==
    /\ run # None
    /\ run.at = "ended"
    /\ run.environ = NoneArg
    /\ run.dotenv = NoneArg

\* C15: a run without OPENAI_API_KEY does not end with an uncaught
\* exception, whatever its options: the default run prints the notice
\* `OpenAI API key not found` and returns, the runs that view plans or edit
\* the preferences enter the function that does so.
C15_NoUncaughtWithoutKey ==
    EndedWithoutKey =>
        /\ run.exit = "normal"
        /\ IF Dispatch(run.argv) = "generate_schedule"
           THEN run.notice = KeyNotFoundNotice
           ELSE run.entered = Dispatch(run.argv)

(***************************************************************************)
(* Properties of the orchestrator when the agent fails (C16).              *)
(***************************************************************************)

\* C16: when the agent's call inside main.generate_schedule has raised, the
\* step that follows reports an error and returns, and it leaves the plans
\* table and the exported files as they were: neither save_plan nor
\* save_to_markdown runs, nothing is stored in place of the schedule.
C16_FailureSavesNothing ==
    [][(caller = "main" /\ agent = "raised")
          => (orch' = "error" /\ plans' = plans /\ files' = files)]_vars

\* C16 witness: a run whose generation raised has ended with an error, and
\* the plan and the file of an earlier run are there.
C16_Witness ==
    /\ orch = "error"
    /\ outcome.kind = "raise"
    /\ agent = "idle"
    /\ plans # {}
    /\ files # {}

(***************************************************************************)
(* Properties of the edited preferences (C17).                             *)
(***************************************************************************)

\* an answer that is a count of minutes of at least `least`
ValidMinutes(answer, least) ==
    IsDigitText(Strip(answer)) /\ IntOf(Strip(answer)) >= least

\* an answer of the form start-end
ValidWorkday(answer) == Len(SplitAll(Strip(answer), <<"-">>)) = 2

\* C17: from the defaults on, after any sessions of edit_preferences with
\* any answers, the record in preferences.json has an integer
\* max_time_block above 0 and an integer break_interval of at least 0, and
\* a session leaves a field as it was loaded when the answer for it is
\* blank or no valid value.
C17_PersistedRecordValid ==
    /\ prefFile # None =>
          /\ prefFile.kind = "json"
          /\ prefFile.doc.max_time_block.type = "int"
          /\ prefFile.doc.max_time_block.val > 0
          /\ prefFile.doc.break_interval.type = "int"
          /\ prefFile.doc.break_interval.val >= 0
    /\ session # None =>
          /\ ~ValidWorkday(session.answers.workday) =>
                /\ session.prefs[1] = session.loaded[1]
                /\ session.prefs[2] = session.loaded[2]
          /\ ~ValidMinutes(session.answers.max_block, 1) =>
                session.prefs[3] = session.loaded[3]
          /\ ~ValidMinutes(session.answers.break, 0) =>
                session.prefs[4] = session.loaded[4]
          /\ Lower(Strip(session.answers.deep_work)) \notin {<<"y">>, <<"n">>} =>
                session.prefs[5] = session.loaded[5]

(***************************************************************************)
(* Properties of get_plan's fallback (C18).                                *)
(***************************************************************************)

\* get_plan was called with a text that is no date in either form
AskedOther == got.kind = "got" /\ got.form = "other" /\ got.date # NoneArg

YearMonth == <<"2","0","2","4","-","0","3">>

\* C18: for a query that is no date and equals no stored key, get_plan
\* matches the query as a substring of the stored keys: a record comes back
\* only if its key contains the query (a word contained in no key gives no
\* record), and a year and month that some key contains gives a record
\* whose key contains it.
C18_FallbackMatchesQuery ==
    AskedOther =>
        /\ got.result # None => Contains(got.result.date, got.date)
        /\ (got.date = YearMonth /\ \E r \in plans : Contains(r.date, YearMonth))
              => (got.result # None /\ Contains(got.result.date, YearMonth))

====
